---- MODULE Spec2Model ----
(***************************************************************************)
(* Order lifecycle and pricing pipeline of the console e-commerce system:  *)
(* session, shopping cart, checkout (order assembly, pricing, payment,     *)
(* invoice, shipment), and the JSON-file repositories behind them.         *)
(*                                                                         *)
(* Representation.                                                         *)
(*  - Money (Python float) is an exact integer count of 1/10000 currency   *)
(*    units; prices are whole cents and tax rates whole percents, so       *)
(*    every product the code computes is exact.  Binary floating-point     *)
(*    rounding is not modelled.                                            *)
(*  - Python None is the empty tuple, an object x that may be None is <<x>>.*)
(*  - A Python str that the code slices or formats is a sequence of        *)
(*    pieces (characters or literal fragments).                            *)
(*  - A Python list object lives in `heap`; a field holding a list holds   *)
(*    its index in `heap`, so two fields can hold the same list object.    *)
(*  - A JSON file is [content, data]: content "json" with the parsed       *)
(*    array in data, or "empty" / "malformed".                             *)
(*  - Timestamps (created_at, invoice_date, due_date) are left out.        *)
(***************************************************************************)
EXTENDS Integers, Sequences, FiniteSets, TLC

VARIABLES
    current_user,     \* ApplicationController.current_user
    current_cart,     \* ApplicationController.current_cart
    products_file,    \* data/products.json
    orders_file,      \* data/orders.json
    order,            \* the Order object in hand (checkout's local `order`)
    heap,             \* the list objects reachable from `order`
    pc,               \* position inside ApplicationController.checkout
    pay_result,       \* what process_order_payment returned last
    uuid_count,       \* number of uuid.uuid4() calls made so far
    call,             \* the library call made last (API-level specifications)
    found,            \* what the last repository query returned
    hash_seed         \* the str-hash salt of the running interpreter

vars == <<current_user, current_cart, products_file, orders_file, order, heap,
          pc, pay_result, uuid_count, call, found, hash_seed>>

-----------------------------------------------------------------------------
(* Bounds of the model *)

MaxOrders == 1
MaxCartUnits == 2
MaxLines == 2
MaxStored == 3
MaxCheckouts == 2

-----------------------------------------------------------------------------
(* Python values *)

None == <<>>
Some(x) == <<x>>

\* seq[i] for a Python index i, negative indices counting from the end
PyIndex(seq, i) == IF i >= 0 THEN seq[i + 1] ELSE seq[Len(seq) + i + 1]

\* s[:n]
PyPrefix(s, n) == SubSeq(s, 1, IF n < Len(s) THEN n ELSE Len(s))

HexDigits == <<"0", "1", "2", "3", "4", "5", "6", "7",
               "8", "9", "a", "b", "c", "d", "e", "f">>

\* str.upper() on one character of a uuid
UpperChar(c) ==
    CASE c = "a" -> "A" [] c = "b" -> "B" [] c = "c" -> "C"
      [] c = "d" -> "D" [] c = "e" -> "E" [] c = "f" -> "F"
      [] OTHER -> c

PyUpper(s) == [i \in 1..Len(s) |-> UpperChar(s[i])]

FragmentLen == 8

\* the last 28 characters of the identifiers drawn, each kept as one piece
UuidTails ==
    << "-7c1e-4b5a-9d2f-3a6b8c0d1e2f", "-0a9b-4c8d-8e7f-6a5b4c3d2e1f",
       "-f1e2-4d3c-b4a5-968778695a4b", "-1234-4abc-9def-0123456789ab",
       "-5e6f-4a7b-8c9d-0e1f2a3b4c5d", "-9d8c-4b7a-a695-84736251403f",
       "-2b4d-4f6a-8c0e-1a3c5e7f9b0d", "-c0de-4bad-beef-feedfacecafe" >>

\* str(uuid.uuid4()): the n-th identifier drawn, 36 characters in the
\* 8-4-4-4-12 layout: its first 8 characters one by one, then the rest.
\* Different n give different identifiers.
Uuid(n) ==
    [i \in 1..FragmentLen |-> HexDigits[((n * 7 + i * 3) % 16) + 1]]
        \o <<UuidTails[(n % Len(UuidTails)) + 1]>>

\* the salts an interpreter may start with (PYTHONHASHSEED unset: random)
HashSeeds == {0, 1}

\* float * float, for a money amount and a rate given in percent
FloatMul(amount, rate) == (amount * rate) \div 100

-----------------------------------------------------------------------------
(* config/config.py *)

TAX_RATE == 10
SHIPPING_COST == 50000

-----------------------------------------------------------------------------
(* Stores the session starts from *)

\* data/users.json: the registered customers
UsersFile ==
    << [customer_id |-> "c1", email |-> "ann@shop.io", password |-> "secret1"],
       [customer_id |-> "c2", email |-> "bob@shop.io", password |-> "secret2"] >>

EmailInputs == {"ann@shop.io", "bob@shop.io", "eve@shop.io", "not-an-email"}
PasswordInputs == {"secret1", "secret2"}
CustomerIds == {"c1", "c2"}

Product(product_id, name, price, quantity_available) ==
    [product_id |-> product_id, name |-> name, price |-> price,
     quantity_available |-> quantity_available]

ProductToDict(p) == p

ProductFromDict(d) == Product(d.product_id, d.name, d.price, d.quantity_available)

JsonFile(data) == [content |-> "json", data |-> data]

InitialProducts ==
    << Product("p1", "Wireless Mouse", 299900, 2),
       Product("p2", "Phone Stand", 149900, 1) >>

ProductIdInputs == {"p1", "p2", "p9"}
PriceInputs == {299900, 349900}

-----------------------------------------------------------------------------
(* src/models.py: CartItem, ShoppingCart *)

CartItem(product, quantity) == [product |-> product, quantity |-> quantity]

ShoppingCart(customer_id) == [items |-> <<>>, customer_id |-> customer_id]

\* index of the first cart item holding product_id, 0 when there is none
CartIndexOf(items, product_id) ==
    IF \E i \in 1..Len(items) : items[i].product.product_id = product_id
    THEN CHOOSE i \in 1..Len(items) :
            /\ items[i].product.product_id = product_id
            /\ \A j \in 1..(i - 1) : items[j].product.product_id # product_id
    ELSE 0

CartAddItemAlwaysAppend(cart, product, quantity) ==
    [cart EXCEPT !.items = Append(@, CartItem(product, quantity))]

CartAddItem(cart, product, quantity) ==
    LET i == CartIndexOf(cart.items, product.product_id) IN
    IF i # 0
    THEN [cart EXCEPT !.items[i].quantity = @ + quantity]
    ELSE [cart EXCEPT !.items = Append(@, CartItem(product, quantity))]

CartRemoveItem(cart, product_id) ==
    LET i == CartIndexOf(cart.items, product_id) IN
    IF i # 0
    THEN [cart EXCEPT !.items = SubSeq(@, 1, i - 1) \o SubSeq(@, i + 1, Len(@))]
    ELSE cart

CartUpdateItemQuantity(cart, product_id, new_quantity) ==
    LET i == CartIndexOf(cart.items, product_id) IN
    IF i # 0
    THEN [cart EXCEPT !.items[i].quantity = new_quantity]
    ELSE cart

CartClear(cart) == [cart EXCEPT !.items = <<>>]

CartIsEmpty(cart) == Len(cart.items) = 0

RECURSIVE CartUnits(_)
CartUnits(items) ==
    IF items = <<>> THEN 0 ELSE Head(items).quantity + CartUnits(Tail(items))

-----------------------------------------------------------------------------
(* src/models.py: OrderLine, Order, Invoice, Shipment *)

OrderLine(product, quantity, unit_price) ==
    [product |-> product, quantity |-> quantity, unit_price |-> unit_price]

GetLineTotal(line) == line.unit_price * line.quantity

OrderLineToDict(line) ==
    [product_id |-> line.product.product_id,
     product_name |-> line.product.name,
     quantity |-> line.quantity,
     unit_price |-> line.unit_price,
     line_total |-> GetLineTotal(line)]

OrderForFirstCustomer(customer_id, n, ref) ==
    [order_id |-> Uuid(n),
     customer_id |-> "c1",
     order_lines |-> ref,
     subtotal |-> 0,
     tax_amount |-> 0,
     shipping_cost |-> 0,
     total_amount |-> 0,
     status |-> "Pending",
     invoice |-> None,
     shipment |-> None]

OrderWithFixedId(customer_id, n, ref) ==
    [customer_id |-> customer_id, order_id |-> Uuid(1),
     order_lines |-> ref, subtotal |-> 0, tax_amount |-> 0, shipping_cost |-> 0,
     total_amount |-> 0, status |-> "Pending", invoice |-> None, shipment |-> None]

\* Order.__init__: order_id is the n-th uuid, order_lines the list object ref
Order(customer_id, n, ref) ==
    [order_id |-> Uuid(n),
     customer_id |-> customer_id,
     order_lines |-> ref,
     subtotal |-> 0,
     tax_amount |-> 0,
     shipping_cost |-> 0,
     total_amount |-> 0,
     status |-> "Pending",
     invoice |-> None,
     shipment |-> None]

\* Order.add_line appends to the list object the order holds
OrderAddLine(h, o, order_line) ==
    [h EXCEPT ![o.order_lines] = Append(@, order_line)]

RECURSIVE SumLineTotals(_)
SumLineTotals(lines) ==
    IF lines = <<>> THEN 0
    ELSE GetLineTotal(Head(lines)) + SumLineTotals(Tail(lines))

CalculateTotalsNoShipping(o, h, tax_rate, shipping_cost) ==
    LET sub == SumLineTotals(h[o.order_lines])
        tax == FloatMul(sub, tax_rate) IN
    [o EXCEPT !.subtotal = sub, !.tax_amount = tax,
              !.shipping_cost = shipping_cost, !.total_amount = sub + tax]

CalculateTotals(o, h, tax_rate, shipping_cost) ==
    LET sub == SumLineTotals(h[o.order_lines])
        tax == FloatMul(sub, tax_rate) IN
    [o EXCEPT !.subtotal = sub, !.tax_amount = tax,
              !.shipping_cost = shipping_cost,
              !.total_amount = sub + tax + shipping_cost]

SetStatus(o, status) == [o EXCEPT !.status = status]

InvoiceBillingSubtotal(order_id, customer_id, order_lines, subtotal, tax_amount, total_amount, n) ==
    [invoice_id |-> Uuid(n),
     order_id |-> order_id,
     customer_id |-> customer_id,
     items |-> order_lines,
     subtotal |-> subtotal,
     tax_amount |-> tax_amount,
     total_amount |-> subtotal]

\* Invoice.__init__: invoice_id is the n-th uuid; items keeps the list object
\* it is given (order_lines is a reference), the amounts are values
Invoice(order_id, customer_id, order_lines, subtotal, tax_amount, total_amount, n) ==
    [invoice_id |-> Uuid(n),
     order_id |-> order_id,
     customer_id |-> customer_id,
     items |-> order_lines,
     subtotal |-> subtotal,
     tax_amount |-> tax_amount,
     total_amount |-> total_amount]

ShipmentTrackingAsDrawn(order_id, n) ==
    [shipment_id |-> Uuid(n),
     order_id |-> order_id,
     tracking_number |-> <<"TRACK-">> \o PyPrefix(Uuid(n), FragmentLen),
     status |-> "Pending"]

\* Shipment.__init__: shipment_id is the n-th uuid
Shipment(order_id, n) ==
    [shipment_id |-> Uuid(n),
     order_id |-> order_id,
     tracking_number |-> <<"TRACK-">> \o PyUpper(PyPrefix(Uuid(n), FragmentLen)),
     status |-> "Pending"]

ShipmentToDict(s) == s

ShipmentFromDict(d) ==
    [shipment_id |-> d.shipment_id, order_id |-> d.order_id,
     tracking_number |-> d.tracking_number, status |-> d.status]

LinesToDicts(lines) == [i \in 1..Len(lines) |-> OrderLineToDict(lines[i])]

InvoiceToDict(inv, h) ==
    [invoice_id |-> inv.invoice_id,
     order_id |-> inv.order_id,
     customer_id |-> inv.customer_id,
     items |-> LinesToDicts(h[inv.items]),
     subtotal |-> inv.subtotal,
     tax_amount |-> inv.tax_amount,
     total_amount |-> inv.total_amount]

\* Invoice.from_dict: the stored items are not read back (order_lines=[])
InvoiceFromDict(d, ref) ==
    [invoice_id |-> d.invoice_id,
     order_id |-> d.order_id,
     customer_id |-> d.customer_id,
     items |-> ref,
     subtotal |-> d.subtotal,
     tax_amount |-> d.tax_amount,
     total_amount |-> d.total_amount]

OrderToDict(o, h) ==
    [order_id |-> o.order_id,
     customer_id |-> o.customer_id,
     order_lines |-> LinesToDicts(h[o.order_lines]),
     subtotal |-> o.subtotal,
     tax_amount |-> o.tax_amount,
     shipping_cost |-> o.shipping_cost,
     total_amount |-> o.total_amount,
     status |-> o.status,
     invoice |-> IF o.invoice # None THEN Some(InvoiceToDict(o.invoice[1], h)) ELSE None,
     shipment |-> IF o.shipment # None THEN Some(ShipmentToDict(o.shipment[1])) ELSE None]

\* Order.from_dict: a new Order whose list of lines stays empty (list object
\* ref); the invoice, when stored, gets an empty list of its own (ref + 1)
OrderFromDict(d, ref) ==
    [order_id |-> d.order_id,
     customer_id |-> d.customer_id,
     order_lines |-> ref,
     subtotal |-> d.subtotal,
     tax_amount |-> d.tax_amount,
     shipping_cost |-> d.shipping_cost,
     total_amount |-> d.total_amount,
     status |-> d.status,
     invoice |-> IF d.invoice # None THEN Some(InvoiceFromDict(d.invoice[1], ref + 1)) ELSE None,
     shipment |-> IF d.shipment # None THEN Some(ShipmentFromDict(d.shipment[1])) ELSE None]

\* the list objects Order.from_dict allocates: the order's and the invoice's
FromDictHeap == << <<>>, <<>> >>

\* an Order object with the lists it refers to written out
OrderView(o, h) ==
    [o EXCEPT !.order_lines = h[o.order_lines],
              !.invoice = IF o.invoice # None
                          THEN Some([o.invoice[1] EXCEPT !.items = h[o.invoice[1].items]])
                          ELSE None]

-----------------------------------------------------------------------------
(* src/repositories.py *)

\* _load_all: the parsed array, or [] for an empty or malformed file
LoadAll(file) == IF file.content = "json" THEN file.data ELSE <<>>

\* _write_all: the whole collection is rewritten
WriteAll(records) == JsonFile(records)

\* index of the first stored record with this order_id, 0 when there is none
OrderIndexOf(orders, order_id) ==
    IF \E i \in 1..Len(orders) : orders[i].order_id = order_id
    THEN CHOOSE i \in 1..Len(orders) :
            /\ orders[i].order_id = order_id
            /\ \A j \in 1..(i - 1) : orders[j].order_id # order_id
    ELSE 0

\* how a repository call ends: with a value, or with an exception
Returns(value) == [returned |-> value]
Raises(exception) == [raised |-> exception]

\* a file that is there but has no text, one whose text is not JSON, one
\* that cannot be read (gone, no permission, not UTF-8), and one whose JSON
\* is an array of values that are not objects
EmptyFile == [content |-> "empty", data |-> <<>>]
MalformedFile == [content |-> "malformed", data |-> <<>>]
UnreadableFile == [content |-> "unreadable", data |-> <<>>]
NotRecordsFile == [content |-> "not_records", data |-> <<>>]

\* _load_all lets through what read_text raises: only JSONDecodeError is caught
LoadAllRaises(file) == file.content = "unreadable"

OrderRepositorySaveMovingToEnd(file, order_dict) ==
    WriteAll(Append(SelectSeq(LoadAll(file),
                              LAMBDA o : o.order_id # order_dict.order_id),
                    order_dict))

OrderRepositorySaveAppendOnly(file, order_dict) ==
    WriteAll(Append(LoadAll(file), order_dict))

\* OrderRepository.save, given order.to_dict()
OrderRepositorySave(file, order_dict) ==
    LET orders == LoadAll(file)
        i == OrderIndexOf(orders, order_dict.order_id) IN
    IF i # 0
    THEN WriteAll([orders EXCEPT ![i] = order_dict])
    ELSE WriteAll(Append(orders, order_dict))

\* OrderRepository.find_by_id: None, or the order read back
OrderRepositoryFindById(file, order_id) ==
    LET orders == LoadAll(file)
        i == OrderIndexOf(orders, order_id) IN
    IF i # 0 THEN Some(OrderFromDict(orders[i], 1)) ELSE None

RECURSIVE SelectByCustomer(_, _)
SelectByCustomer(orders, customer_id) ==
    IF orders = <<>> THEN <<>>
    ELSE IF Head(orders).customer_id = customer_id
         THEN <<OrderView(OrderFromDict(Head(orders), 1), FromDictHeap)>>
                 \o SelectByCustomer(Tail(orders), customer_id)
         ELSE SelectByCustomer(Tail(orders), customer_id)

RECURSIVE SelectByCustomerNewestFirst(_, _)
SelectByCustomerNewestFirst(orders, customer_id) ==
    IF orders = <<>> THEN <<>>
    ELSE IF Head(orders).customer_id = customer_id
         THEN SelectByCustomerNewestFirst(Tail(orders), customer_id)
                 \o <<OrderView(OrderFromDict(Head(orders), 1), FromDictHeap)>>
         ELSE SelectByCustomerNewestFirst(Tail(orders), customer_id)

OrderRepositoryFindByCustomerIdNewestFirst(file, customer_id) ==
    SelectByCustomerNewestFirst(LoadAll(file), customer_id)

\* OrderRepository.find_by_customer_id: the orders read back, lists written out
OrderRepositoryFindByCustomerId(file, customer_id) ==
    SelectByCustomer(LoadAll(file), customer_id)

\* OrderRepository.get_all
OrderRepositoryGetAll(file) ==
    LET orders == LoadAll(file) IN
    [i \in 1..Len(orders) |-> OrderView(OrderFromDict(orders[i], 1), FromDictHeap)]

\* a read operation of the repository over any state of the file: o.get(...)
\* and Order.from_dict raise on an array element that is not an object
TryFindById(file, order_id) ==
    IF LoadAllRaises(file) THEN Raises("OSError")
    ELSE IF file.content = "not_records" THEN Raises("AttributeError")
    ELSE Returns(OrderRepositoryFindById(file, order_id))

TryFindByCustomerId(file, customer_id) ==
    IF LoadAllRaises(file) THEN Raises("OSError")
    ELSE IF file.content = "not_records" THEN Raises("AttributeError")
    ELSE Returns(OrderRepositoryFindByCustomerId(file, customer_id))

TryGetAll(file) ==
    IF LoadAllRaises(file) THEN Raises("OSError")
    ELSE IF file.content = "not_records" THEN Raises("AttributeError")
    ELSE Returns(OrderRepositoryGetAll(file))

ProductIndexOf(products, product_id) ==
    IF \E i \in 1..Len(products) : products[i].product_id = product_id
    THEN CHOOSE i \in 1..Len(products) :
            /\ products[i].product_id = product_id
            /\ \A j \in 1..(i - 1) : products[j].product_id # product_id
    ELSE 0

\* ProductRepository.save
ProductRepositorySave(file, product) ==
    LET products == LoadAll(file)
        i == ProductIndexOf(products, product.product_id) IN
    IF i # 0
    THEN WriteAll([products EXCEPT ![i] = ProductToDict(product)])
    ELSE WriteAll(Append(products, ProductToDict(product)))

ProductRepositoryFindByIdOrFirst(file, product_id) ==
    LET products == LoadAll(file)
        i == ProductIndexOf(products, product_id) IN
    IF i # 0 THEN Some(ProductFromDict(products[i])) ELSE Some(ProductFromDict(products[1]))

\* ProductRepository.find_by_id (CatalogueService.get_product_by_id)
ProductRepositoryFindById(file, product_id) ==
    LET products == LoadAll(file)
        i == ProductIndexOf(products, product_id) IN
    IF i # 0 THEN Some(ProductFromDict(products[i])) ELSE None

\* CustomerRepository.find_by_email
CustomerRepositoryFindByEmail(email) ==
    IF \E i \in 1..Len(UsersFile) : UsersFile[i].email = email
    THEN Some(UsersFile[CHOOSE i \in 1..Len(UsersFile) : UsersFile[i].email = email])
    ELSE None

-----------------------------------------------------------------------------
(* src/services.py, src/validators.py *)

\* AuthenticationService.login: the customer, or None
AuthLogin(email, password) ==
    LET customer == CustomerRepositoryFindByEmail(email) IN
    IF customer = None THEN None
    ELSE IF customer[1].password # password THEN None
    ELSE customer

\* InputValidator.validate_email on the inputs of the model
ValidateEmail(email) == email # "not-an-email"

\* InputValidator.validate_menu_choice on an integer input
ValidateMenuChoice(choice, max_option) == ~(choice < 0 \/ choice > max_option)

\* InputValidator.validate_quantity on an integer input
ValidateQuantity(quantity) == ~(quantity <= 0)

\* PaymentService.payment_gateways, in insertion order
PaymentMethods == <<"credit_card", "digital_wallet", "bank_transfer">>

PaymentMethodInputs == {"credit_card", "digital_wallet", "bank_transfer", "paypal", ""}

GatewayTag(payment_method) ==
    CASE payment_method = "credit_card" -> "CC-"
      [] payment_method = "digital_wallet" -> "DW-"
      [] payment_method = "bank_transfer" -> "BT-"

GatewayProcessPaymentWholeId(payment_method, amount, order_id) ==
    <<TRUE, <<GatewayTag(payment_method)>> \o order_id \o <<"-SUCCESS">> >>

\* <Gateway>.process_payment of the gateway registered under payment_method:
\* (success, transaction_id)
GatewayProcessPayment(payment_method, amount, order_id) ==
    <<TRUE, <<GatewayTag(payment_method)>> \o PyPrefix(order_id, FragmentLen) \o <<"-SUCCESS">> >>

\* a PaymentGateway implementation that does not approve
DecliningGatewayProcessPayment(payment_method, amount, order_id) ==
    <<FALSE, <<GatewayTag(payment_method)>> \o PyPrefix(order_id, FragmentLen) \o <<"-DECLINED">> >>

IsRegistered(payment_method) ==
    \E i \in 1..Len(PaymentMethods) : PaymentMethods[i] = payment_method

ProcessOrderPaymentDefaultGateway(o, payment_method, declines) ==
    LET m == IF IsRegistered(payment_method) THEN payment_method ELSE "credit_card"
        r == GatewayProcessPayment(m, o.total_amount, o.order_id) IN
    [success |-> r[1], transaction_id |-> r[2], gateway |-> Some(m),
     amount |-> Some(o.total_amount)]

ProcessOrderPaymentChargingSubtotal(o, payment_method, declines) ==
    IF ~IsRegistered(payment_method)
    THEN [success |-> FALSE,
          transaction_id |-> <<"Invalid payment method: ", payment_method>>,
          gateway |-> None, amount |-> None]
    ELSE LET r == IF declines
                  THEN DecliningGatewayProcessPayment(payment_method, o.subtotal, o.order_id)
                  ELSE GatewayProcessPayment(payment_method, o.subtotal, o.order_id) IN
         [success |-> r[1], transaction_id |-> r[2],
          gateway |-> Some(payment_method), amount |-> Some(o.subtotal)]

\* PaymentService.process_order_payment.  gateway records which gateway was
\* invoked and amount what it was asked to charge; declines says whether the
\* registered gateways are replaced by implementations that do not approve.
ProcessOrderPayment(o, payment_method, declines) ==
    IF ~IsRegistered(payment_method)
    THEN [success |-> FALSE,
          transaction_id |-> <<"Invalid payment method: ", payment_method>>,
          gateway |-> None, amount |-> None]
    ELSE LET r == IF declines
                  THEN DecliningGatewayProcessPayment(payment_method, o.total_amount, o.order_id)
                  ELSE GatewayProcessPayment(payment_method, o.total_amount, o.order_id) IN
         [success |-> r[1], transaction_id |-> r[2],
          gateway |-> Some(payment_method), amount |-> Some(o.total_amount)]

MockStatusesWithPending ==
    <<"Pending", "Order Confirmed", "Processing", "Shipped", "In Transit",
      "Out for Delivery", "Delivered">>

\* CarrierAdapter.mock_statuses
MockStatuses ==
    <<"Order Confirmed", "Processing", "Shipped", "In Transit",
      "Out for Delivery", "Delivered">>

\* ord() of the characters a tracking number is made of
PieceCode(c) ==
    CASE c = "0" -> 48 [] c = "1" -> 49 [] c = "2" -> 50 [] c = "3" -> 51
      [] c = "4" -> 52 [] c = "5" -> 53 [] c = "6" -> 54 [] c = "7" -> 55
      [] c = "8" -> 56 [] c = "9" -> 57 [] c = "A" -> 65 [] c = "B" -> 66
      [] c = "C" -> 67 [] c = "D" -> 68 [] c = "E" -> 69 [] c = "F" -> 70
      [] OTHER -> 84

HashRange == 65536

\* hash(s) of a str in an interpreter whose salt is seed: a function of the
\* salt and of the characters, here a salted polynomial over s[1..k]
RECURSIVE StrHashUpTo(_, _, _)
StrHashUpTo(seed, s, k) ==
    IF k = 0 THEN seed
    ELSE (StrHashUpTo(seed, s, k - 1) * 31 + PieceCode(s[k])) % HashRange

\* hash() is a signed integer: the lower half of the range reads as negative
StrHash(seed, s) == StrHashUpTo(seed, s, Len(s)) - (HashRange \div 2)

\* Python's a % b for b > 0: the remainder of the floor division, in 0..b-1
PyMod(a, b) == a - b * (IF a >= 0 THEN a \div b ELSE 0 - (((0 - a) + b - 1) \div b))

\* CarrierAdapter.get_tracking_info: (status, estimated_delivery)
GetTrackingInfo(seed, tracking_number) ==
    LET status_index == PyMod(StrHash(seed, tracking_number), Len(MockStatuses)) IN
    <<PyIndex(MockStatuses, status_index), "2025-11-15">>

\* CarrierAdapter.update_shipment_status: the shipment object after the call
UpdateShipmentStatus(seed, shipment) ==
    [shipment EXCEPT !.status = GetTrackingInfo(seed, shipment.tracking_number)[1]]

-----------------------------------------------------------------------------
(* src/ui.py: ApplicationController, driven from the menus of src/main.py *)

LoggedIn == current_user # None /\ current_cart # None

\* the locals of checkout are dropped when it returns
CheckoutReturns ==
    /\ pc' = "menu"
    /\ order' = None
    /\ heap' = <<>>
    /\ pay_result' = None

Init ==
    /\ current_user = None
    /\ current_cart = None
    /\ products_file = JsonFile(InitialProducts)
    /\ orders_file = JsonFile(<<>>)
    /\ order = None
    /\ heap = <<>>
    /\ pc = "menu"
    /\ pay_result = None
    /\ uuid_count = 0
    /\ call = None
    /\ found = None
    /\ hash_seed \in HashSeeds

\* login_user, offered by the unauthenticated menu
LoginUser(email, password) ==
    /\ pc = "menu"
    /\ current_user = None
    /\ IF ~ValidateEmail(email)
       THEN UNCHANGED <<current_user, current_cart>>
       ELSE LET customer == AuthLogin(email, password) IN
            IF customer # None
            THEN /\ current_user' = customer
                 /\ current_cart' = Some(ShoppingCart(customer[1].customer_id))
            ELSE UNCHANGED <<current_user, current_cart>>
    /\ UNCHANGED <<products_file, orders_file, order, heap, pc, pay_result,
                   uuid_count, call, found, hash_seed>>

LogoutUserKeepingCart ==
    /\ pc = "menu"
    /\ current_user # None
    /\ current_user' = None
    /\ UNCHANGED <<current_cart, products_file, orders_file, order, heap, pc,
                   pay_result, uuid_count, call, found, hash_seed>>

\* logout_user, offered by the authenticated menu
LogoutUser ==
    /\ pc = "menu"
    /\ current_user # None
    /\ current_user' = None
    /\ current_cart' = None
    /\ UNCHANGED <<products_file, orders_file, order, heap, pc, pay_result,
                   uuid_count, call, found, hash_seed>>

\* add_to_cart: the quantity prompt repeats until the input is a valid
\* quantity not above the stock read from the catalogue
AddToCartCart(product_id, quantity) ==
    /\ pc = "menu"
    /\ LoggedIn
    /\ LET product == ProductRepositoryFindById(products_file, product_id) IN
       IF product = None
       THEN UNCHANGED current_cart
       ELSE /\ ValidateQuantity(quantity)
            /\ ~(quantity > product[1].quantity_available)
            /\ current_cart' = Some(CartAddItem(current_cart[1], product[1], quantity))
            /\ CartUnits(current_cart'[1].items) <= MaxCartUnits

AddToCart(product_id, quantity) ==
    /\ AddToCartCart(product_id, quantity)
    /\ UNCHANGED <<current_user, products_file, orders_file, order, heap, pc,
                   pay_result, uuid_count, call, found, hash_seed>>

\* manage_cart_items: both menu prompts repeat until validate_menu_choice
\* accepts the input, the quantity prompt until validate_quantity does
ManageCartItems(choice, action, new_qty) ==
    /\ pc = "menu"
    /\ LoggedIn
    /\ ~CartIsEmpty(current_cart[1])
    /\ ValidateMenuChoice(choice, Len(current_cart[1].items))
    /\ ValidateMenuChoice(action, 2)
    /\ LET selected_item == PyIndex(current_cart[1].items, choice - 1) IN
       IF action = 1
       THEN /\ ValidateQuantity(new_qty)
            /\ current_cart' = Some(CartUpdateItemQuantity(
                    current_cart[1], selected_item.product.product_id, new_qty))
            /\ CartUnits(current_cart'[1].items) <= MaxCartUnits
       ELSE IF action = 2
       THEN current_cart' = Some(CartRemoveItem(
                    current_cart[1], selected_item.product.product_id))
       ELSE UNCHANGED current_cart
    /\ UNCHANGED <<current_user, products_file, orders_file, order, heap, pc,
                   pay_result, uuid_count, call, found, hash_seed>>

\* the catalogue is rewritten with a new price for a product
\* (ProductRepository.save of a product id already stored)
CatalogueSave(product_id, price) ==
    /\ pc = "menu"
    /\ LET stored == ProductRepositoryFindById(products_file, product_id) IN
       /\ stored # None
       /\ products_file' = ProductRepositorySave(
              products_file, [stored[1] EXCEPT !.price = price])
    /\ UNCHANGED <<current_user, current_cart, orders_file, order, heap, pc,
                   pay_result, uuid_count, call, found, hash_seed>>

RECURSIVE AssembleLinesNewestFirst(_, _, _)
AssembleLinesNewestFirst(h, o, items) ==
    IF items = <<>> THEN h
    ELSE OrderAddLine(AssembleLinesNewestFirst(h, o, Tail(items)), o,
                      OrderLine(Head(items).product, Head(items).quantity,
                                Head(items).product.price))

RECURSIVE AssembleLines(_, _, _)
\* checkout step 2: one add_line per cart item, in the cart's order
AssembleLines(h, o, items) ==
    IF items = <<>> THEN h
    ELSE AssembleLines(
            OrderAddLine(h, o, OrderLine(Head(items).product, Head(items).quantity,
                                         Head(items).product.price)),
            o, Tail(items))

\* checkout steps 1 and 2: guards, Order(customer_id), the order lines;
\* at most max_orders orders are completed
CheckoutCreateOrderWithin(max_orders) ==
    /\ pc = "menu"
    /\ LoggedIn
    /\ ~CartIsEmpty(current_cart[1])
    /\ uuid_count + 3 <= 3 * max_orders
    /\ LET o == Order(current_user[1].customer_id, uuid_count + 1, 1) IN
       /\ order' = Some(o)
       /\ heap' = AssembleLines(<< <<>> >>, o, current_cart[1].items)
    /\ uuid_count' = uuid_count + 1
    /\ pc' = "pricing"
    /\ UNCHANGED <<current_user, current_cart, products_file, orders_file,
                   pay_result, call, found, hash_seed>>

CheckoutCreateOrder == CheckoutCreateOrderWithin(MaxOrders)

\* PricingService(tax_rate, shipping_cost).calculate_order_total(order)
PricingCalculateOrderTotal(o, h, tax_rate, shipping_cost) ==
    CalculateTotals(o, h, tax_rate, shipping_cost)

CheckoutCalculateTotalsThenSave ==
    /\ pc = "pricing"
    /\ order' = Some(PricingCalculateOrderTotal(order[1], heap, TAX_RATE, SHIPPING_COST))
    /\ orders_file' = OrderRepositorySave(orders_file, OrderToDict(order'[1], heap))
    /\ pc' = "payment"
    /\ UNCHANGED <<current_user, current_cart, products_file, heap,
                   pay_result, uuid_count, call, found, hash_seed>>

\* checkout step 3
CheckoutCalculateTotals ==
    /\ pc = "pricing"
    /\ order' = Some(PricingCalculateOrderTotal(order[1], heap, TAX_RATE, SHIPPING_COST))
    /\ pc' = "payment"
    /\ UNCHANGED <<current_user, current_cart, products_file, orders_file, heap,
                   pay_result, uuid_count, call, found, hash_seed>>

ChoiceInputs == (0 - 1)..(Len(PaymentMethods) + 1)

CheckoutPaymentMarksPaid(choice, declines) ==
    /\ pc = "payment"
    /\ IF ~ValidateMenuChoice(choice, Len(PaymentMethods))
       THEN UNCHANGED <<pc, pay_result, order>>
       ELSE LET selected_method == PyIndex(PaymentMethods, choice - 1) IN
            /\ pay_result' = Some(ProcessOrderPayment(order[1], selected_method, declines))
            /\ order' = Some(SetStatus(order[1], "Paid"))
            /\ pc' = "paid"
    /\ UNCHANGED <<current_user, current_cart, products_file, orders_file,
                   heap, uuid_count, call, found, hash_seed>>

\* checkout step 4: the prompt repeats on an input validate_menu_choice
\* rejects; an accepted one selects payment_methods[choice - 1] and is paid
CheckoutPaymentWith(choice, declines) ==
    /\ pc = "payment"
    /\ IF ~ValidateMenuChoice(choice, Len(PaymentMethods))
       THEN UNCHANGED <<pc, pay_result>>
       ELSE LET selected_method == PyIndex(PaymentMethods, choice - 1) IN
            /\ pay_result' = Some(ProcessOrderPayment(order[1], selected_method, declines))
            /\ pc' = "paid"
    /\ UNCHANGED <<current_user, current_cart, products_file, orders_file, order,
                   heap, uuid_count, call, found, hash_seed>>

CheckoutPayment(choice) == CheckoutPaymentWith(choice, FALSE)

\* the same step with a gateway implementation that does not approve
CheckoutPaymentDeclined(choice) == CheckoutPaymentWith(choice, TRUE)

CheckoutSetStatusIgnoringResult ==
    /\ pc = "paid"
    /\ order' = Some(SetStatus(order[1], "Paid"))
    /\ pc' = "invoice"
    /\ UNCHANGED <<current_user, current_cart, products_file, orders_file,
                   heap, pay_result, uuid_count, call, found, hash_seed>>

\* checkout: `if not success: return`, then step 5
CheckoutSetStatus ==
    /\ pc = "paid"
    /\ IF ~pay_result[1].success
       THEN /\ CheckoutReturns
            /\ UNCHANGED <<current_user, current_cart, products_file, orders_file,
                           uuid_count, call, found, hash_seed>>
       ELSE /\ order' = Some(SetStatus(order[1], "Paid"))
            /\ pc' = "invoice"
            /\ UNCHANGED <<current_user, current_cart, products_file, orders_file,
                           heap, pay_result, uuid_count, call, found, hash_seed>>

\* checkout step 6
CheckoutCreateInvoice ==
    /\ pc = "invoice"
    /\ LET o == order[1]
           invoice == Invoice(o.order_id, o.customer_id, o.order_lines,
                              o.subtotal, o.tax_amount, o.total_amount,
                              uuid_count + 1) IN
       order' = Some([o EXCEPT !.invoice = Some(invoice)])
    /\ uuid_count' = uuid_count + 1
    /\ pc' = "shipment"
    /\ UNCHANGED <<current_user, current_cart, products_file, orders_file, heap,
                   pay_result, call, found, hash_seed>>

\* checkout step 7
CheckoutCreateShipment ==
    /\ pc = "shipment"
    /\ LET shipment == Shipment(order[1].order_id, uuid_count + 1) IN
       order' = Some([order[1] EXCEPT !.shipment = Some(shipment)])
    /\ uuid_count' = uuid_count + 1
    /\ pc' = "save"
    /\ UNCHANGED <<current_user, current_cart, products_file, orders_file, heap,
                   pay_result, call, found, hash_seed>>

CheckoutSaveOrderSkipped ==
    /\ pc = "save"
    /\ pc' = "clear"
    /\ UNCHANGED <<current_user, current_cart, products_file, orders_file, order,
                   heap, pay_result, uuid_count, call, found, hash_seed>>

CheckoutSaveOrderTakingStock ==
    /\ pc = "save"
    /\ orders_file' = OrderRepositorySave(orders_file, OrderToDict(order[1], heap))
    /\ LET item == current_cart[1].items[1] IN
       products_file' = ProductRepositorySave(products_file,
            [item.product EXCEPT !.quantity_available = @ - item.quantity])
    /\ pc' = "clear"
    /\ UNCHANGED <<current_user, current_cart, order, heap,
                   pay_result, uuid_count, call, found, hash_seed>>

\* checkout step 8
CheckoutSaveOrder ==
    /\ pc = "save"
    /\ orders_file' = OrderRepositorySave(orders_file, OrderToDict(order[1], heap))
    /\ pc' = "clear"
    /\ UNCHANGED <<current_user, current_cart, products_file, order, heap,
                   pay_result, uuid_count, call, found, hash_seed>>

\* checkout step 9, and the return
CheckoutClearCart ==
    /\ pc = "clear"
    /\ current_cart' = Some(CartClear(current_cart[1]))
    /\ CheckoutReturns
    /\ UNCHANGED <<current_user, products_file, orders_file, uuid_count, call, found, hash_seed>>

\* track_shipment: orders_with_shipments = [o for o in orders if o.shipment]
WithShipments(orders) == SelectSeq(orders, LAMBDA o : o.shipment # None)

TrackShipmentThenSave(choice) ==
    /\ pc = "menu"
    /\ current_user # None
    /\ LET orders == OrderRepositoryFindByCustomerId(orders_file, current_user[1].customer_id)
           orders_with_shipments == WithShipments(orders) IN
       /\ orders_with_shipments # <<>>
       /\ ValidateMenuChoice(choice, Len(orders_with_shipments))
       /\ LET selected_order == PyIndex(orders_with_shipments, choice - 1)
              shipment == selected_order.shipment[1]
              stored == LoadAll(orders_file)
              i == OrderIndexOf(stored, selected_order.order_id) IN
          /\ call' = Some([op |-> "get_tracking_info",
                           tracking_number |-> shipment.tracking_number])
          /\ found' = Some(GetTrackingInfo(hash_seed, shipment.tracking_number))
          /\ orders_file' = WriteAll([stored EXCEPT ![i].shipment =
                                Some(UpdateShipmentStatus(hash_seed, shipment))])
    /\ UNCHANGED <<current_user, current_cart, products_file, order, heap,
                   pc, pay_result, uuid_count, hash_seed>>

\* track_shipment: the prompt repeats until validate_menu_choice accepts the
\* input; what the carrier adapter returned is what the user is shown
TrackShipment(choice) ==
    /\ pc = "menu"
    /\ current_user # None
    /\ LET orders == OrderRepositoryFindByCustomerId(orders_file, current_user[1].customer_id)
           orders_with_shipments == WithShipments(orders) IN
       /\ orders_with_shipments # <<>>
       /\ ValidateMenuChoice(choice, Len(orders_with_shipments))
       /\ LET selected_order == PyIndex(orders_with_shipments, choice - 1)
              shipment == selected_order.shipment[1] IN
          /\ call' = Some([op |-> "get_tracking_info",
                           tracking_number |-> shipment.tracking_number])
          /\ found' = Some(GetTrackingInfo(hash_seed, shipment.tracking_number))
    /\ UNCHANGED <<current_user, current_cart, products_file, orders_file, order,
                   heap, pc, pay_result, uuid_count, hash_seed>>

\* selected_order = find_by_id(order_id);
\* carrier_adapter.update_shipment_status(selected_order.shipment):
\* the loaded order's status and its shipment's status after the call
ApiUpdateShipmentStatus(order_id) ==
    /\ pc = "menu"
    /\ LET selected_order == OrderRepositoryFindById(orders_file, order_id) IN
       /\ selected_order # None
       /\ selected_order[1].shipment # None
       /\ LET shipment == UpdateShipmentStatus(hash_seed, selected_order[1].shipment[1]) IN
          /\ call' = Some([op |-> "update_shipment_status", order_id |-> order_id])
          /\ found' = Some([order_status |-> selected_order[1].status,
                            shipment_status |-> shipment.status])
    /\ UNCHANGED <<current_user, current_cart, products_file, orders_file, order,
                   heap, pc, pay_result, uuid_count, hash_seed>>

\* the program exits and is started again: the session is gone, the files
\* stay, the new interpreter has its own str-hash salt
Restart ==
    /\ pc = "menu"
    /\ current_user' = None
    /\ current_cart' = None
    /\ hash_seed' \in HashSeeds
    /\ UNCHANGED <<products_file, orders_file, order, heap, pc, pay_result,
                   uuid_count, call, found>>

Next ==
    \/ \E email \in EmailInputs, password \in PasswordInputs : LoginUser(email, password)
    \/ LogoutUser
    \/ \E product_id \in ProductIdInputs, quantity \in 0..MaxCartUnits :
          AddToCart(product_id, quantity)
    \/ \E choice \in (0 - 1)..(MaxCartUnits + 1), action \in 0..2 :
          \E new_qty \in (IF action = 1 THEN 0..MaxCartUnits ELSE {0}) :
              ManageCartItems(choice, action, new_qty)
    \/ CheckoutCreateOrder
    \/ CheckoutCalculateTotals
    \/ \E choice \in ChoiceInputs : CheckoutPayment(choice)
    \/ CheckoutSetStatus
    \/ CheckoutCreateInvoice
    \/ CheckoutCreateShipment
    \/ CheckoutSaveOrder
    \/ CheckoutClearCart

Spec == Init /\ [][Next]_vars

\* checkout is straight-line code: once the payment prompt has its answer,
\* each step that follows is taken without waiting for anyone
SpecLive ==
    /\ Init /\ [][Next]_vars
    /\ WF_vars(CheckoutSetStatus)
    /\ WF_vars(CheckoutCreateInvoice)
    /\ WF_vars(CheckoutCreateShipment)
    /\ WF_vars(CheckoutSaveOrder)
    /\ WF_vars(CheckoutClearCart)

\* the same program with payment gateways that may decline
NextGateways ==
    \/ Next
    \/ \E choice \in ChoiceInputs : CheckoutPaymentDeclined(choice)

SpecGateways == Init /\ [][NextGateways]_vars

\* the same program with a catalogue whose prices change between operations
NextCatalogue ==
    \/ Next
    \/ \E price \in PriceInputs : CatalogueSave("p1", price)

SpecCatalogue == Init /\ [][NextCatalogue]_vars

\* one customer who checks out again and again, with gateways that may decline
NextCheckouts ==
    \/ LoginUser(UsersFile[1].email, UsersFile[1].password)
    \/ LogoutUser
    \/ AddToCart(InitialProducts[1].product_id, 1)
    \/ CheckoutCreateOrderWithin(MaxCheckouts)
    \/ CheckoutCalculateTotals
    \/ \E choice \in ChoiceInputs : CheckoutPayment(choice)
    \/ \E choice \in ChoiceInputs : CheckoutPaymentDeclined(choice)
    \/ CheckoutSetStatus
    \/ CheckoutCreateInvoice
    \/ CheckoutCreateShipment
    \/ CheckoutSaveOrder
    \/ CheckoutClearCart

SpecCheckouts == Init /\ [][NextCheckouts]_vars

\* one customer who checks out, tracks shipments and runs the program again
NextCarrier ==
    \/ NextCheckouts
    \/ \E choice \in 0..MaxCheckouts : TrackShipment(choice)
    \/ \E n \in 1..(3 * MaxCheckouts) : ApiUpdateShipmentStatus(Uuid(n))
    \/ Restart

SpecCarrier == Init /\ [][NextCarrier]_vars

-----------------------------------------------------------------------------
(* Checkout: claims C2, C5, C6, C7 *)

InCheckout == pc # "menu" /\ order # None

StoredOrders == LoadAll(orders_file)

IsStored(order_id) ==
    \E i \in 1..Len(StoredOrders) : StoredOrders[i].order_id = order_id

Approved == pay_result # None /\ pay_result[1].success

\* C2: an invoice or a shipment is attached to an order only after its
\* payment was approved, and both are attached to every approved order by
\* the time it is saved; while the payment of the order in hand stands
\* not approved the order is Pending, has neither and is not in the
\* repository, and the return that follows leaves the repository as it
\* was; every stored order was approved (Paid, with both attached).
C2_InvoiceShipmentIffApproved ==
    /\ InCheckout =>
          /\ (order[1].invoice # None \/ order[1].shipment # None) => Approved
          /\ pc \in {"save", "clear"} =>
                (Approved /\ order[1].invoice # None /\ order[1].shipment # None)
          /\ (pay_result # None /\ ~pay_result[1].success) =>
                /\ order[1].status = "Pending"
                /\ order[1].invoice = None
                /\ order[1].shipment = None
                /\ ~IsStored(order[1].order_id)
          /\ IsStored(order[1].order_id) => pc = "clear"
    /\ \A i \in 1..Len(StoredOrders) :
          /\ StoredOrders[i].status = "Paid"
          /\ StoredOrders[i].invoice # None
          /\ StoredOrders[i].shipment # None

C2_DeclinedOrderInHand ==
    /\ pc = "paid"
    /\ pay_result # None
    /\ ~pay_result[1].success
    /\ order[1].status = "Pending"
    /\ Len(heap[order[1].order_lines]) = 2

\* C5: from the moment checkout has assembled the order until it clears the
\* cart, the order has exactly one line per cart item, in the cart's order,
\* each with that item's product and quantity; the record written to the
\* repository lists the same lines.
C5_OneLinePerCartItem ==
    InCheckout =>
        LET lines == heap[order[1].order_lines]
            items == current_cart[1].items IN
        /\ Len(lines) = Len(items)
        /\ \A i \in 1..Len(items) :
              /\ lines[i].product = items[i].product
              /\ lines[i].quantity = items[i].quantity
        /\ pc = "clear" =>
              LET stored == StoredOrders[Len(StoredOrders)].order_lines IN
              /\ Len(stored) = Len(items)
              /\ \A i \in 1..Len(items) :
                    /\ stored[i].product_id = items[i].product.product_id
                    /\ stored[i].quantity = items[i].quantity

C5_TwoItemCartAssembled ==
    /\ pc = "clear"
    /\ Len(current_cart[1].items) = 2
    /\ current_cart[1].items[1].product.product_id = "p2"
    /\ Len(StoredOrders[Len(StoredOrders)].order_lines) = 2

CatalogueUnitPrice(product_id) ==
    ProductRepositoryFindById(products_file, product_id)[1].price

\* C6: while checkout holds an assembled order (the catalogue is not
\* written during a checkout), each order line's unit_price is the price the
\* catalogue store holds for the line's product.
C6_UnitPriceIsCataloguePrice ==
    InCheckout =>
        \A i \in 1..Len(heap[order[1].order_lines]) :
            LET line == heap[order[1].order_lines][i] IN
            line.unit_price = CatalogueUnitPrice(line.product.product_id)

StatusValues == {"Pending", "Paid"}

\* C7: an order's status is Pending or Paid; an order is Pending when it is
\* created; the only change of status is Pending to Paid, made when the
\* payment of that order is approved and neither invoice nor shipment
\* exists yet; invoice and shipment are attached to Paid orders only; the
\* status of a stored order never changes.
C7_StatusPendingThenPaid ==
    /\ [](/\ order # None => order[1].status \in StatusValues
          /\ order # None =>
                ((order[1].invoice # None \/ order[1].shipment # None)
                    => order[1].status = "Paid")
          /\ \A i \in 1..Len(StoredOrders) : StoredOrders[i].status \in StatusValues)
    /\ [][/\ (order = None /\ order' # None) => order'[1].status = "Pending"
          /\ (order # None /\ order' # None /\ order'[1].status # order[1].status) =>
                /\ order[1].status = "Pending"
                /\ order'[1].status = "Paid"
                /\ Approved
                /\ order[1].invoice = None /\ order[1].shipment = None
                /\ order'[1].invoice = None /\ order'[1].shipment = None
          /\ \A i \in 1..Len(StoredOrders) :
                /\ i <= Len(LoadAll(orders_file'))
                /\ LoadAll(orders_file')[i].order_id = StoredOrders[i].order_id
                /\ LoadAll(orders_file')[i].status = StoredOrders[i].status
         ]_vars

C7_PaidBeforeInvoice ==
    /\ pc = "invoice"
    /\ order[1].status = "Paid"
    /\ order[1].invoice = None
    /\ order[1].shipment = None
    /\ Approved

-----------------------------------------------------------------------------
(* The classes of src/models.py, src/services.py and src/repositories.py *)
(* called directly: `order` is the object the caller holds, `call` the     *)
(* call made last, `found` what the last repository query returned.        *)

SessionUntouched == UNCHANGED <<current_user, current_cart, products_file, pc, hash_seed>>

OrderLineInputs ==
    {OrderLine(InitialProducts[k], quantity, unit_price) :
        k \in 1..Len(InitialProducts), quantity \in 1..MaxCartUnits,
        unit_price \in {InitialProducts[1].price, InitialProducts[2].price}}

LineSeqs == UNION {[1..n -> OrderLineInputs] : n \in 0..MaxLines}

TaxRateInputs == {0, 10, 99}
ShippingCostInputs == {0, 50000}

InitApi ==
    /\ current_user = None
    /\ current_cart = None
    /\ products_file = JsonFile(InitialProducts)
    /\ orders_file = JsonFile(<<>>)
    /\ pc = "menu"
    /\ pay_result = None
    /\ call = None
    /\ found = None
    /\ hash_seed \in HashSeeds

(* Pricing: an order with any lines, priced at any rate and shipping fee *)

InitPricing ==
    /\ InitApi
    /\ uuid_count = 1
    /\ order = Some(Order("c1", 1, 1))
    /\ \E lines \in LineSeqs : heap = <<lines>>

ApiCalculateTotals(tax_rate, shipping_cost) ==
    /\ order' = Some(PricingCalculateOrderTotal(order[1], heap, tax_rate, shipping_cost))
    /\ call' = Some([op |-> "calculate_totals", tax_rate |-> tax_rate,
                     shipping_cost |-> shipping_cost])
    /\ UNCHANGED <<orders_file, heap, pay_result, uuid_count, found>>
    /\ SessionUntouched

NextPricing ==
    \E tax_rate \in TaxRateInputs, shipping_cost \in ShippingCostInputs :
        ApiCalculateTotals(tax_rate, shipping_cost)

SpecPricing == InitPricing /\ [][NextPricing]_vars

(* Payment: a priced order of any identity, paid with any method name *)

InitPayment ==
    /\ InitApi
    /\ \E n \in 1..MaxStored, lines \in LineSeqs :
          /\ uuid_count = n
          /\ heap = <<lines>>
          /\ order = Some(PricingCalculateOrderTotal(
                 Order("c1", n, 1), <<lines>>, TAX_RATE, SHIPPING_COST))

ApiProcessOrderPayment(payment_method) ==
    /\ pay_result' = Some(ProcessOrderPayment(order[1], payment_method, FALSE))
    /\ call' = Some([op |-> "process_order_payment", payment_method |-> payment_method])
    /\ UNCHANGED <<orders_file, order, heap, uuid_count, found>>
    /\ SessionUntouched

NextPayment ==
    \E payment_method \in PaymentMethodInputs : ApiProcessOrderPayment(payment_method)

SpecPayment == InitPayment /\ [][NextPayment]_vars

(* Invoice: lines are added to a new order, it is priced and invoiced *)

InitInvoice ==
    /\ InitApi
    /\ uuid_count = 1
    /\ order = Some(Order("c1", 1, 1))
    /\ heap = << <<>> >>

ApiAddLine(order_line) ==
    /\ Len(heap[order[1].order_lines]) < MaxLines
    /\ heap' = OrderAddLine(heap, order[1], order_line)
    /\ call' = Some([op |-> "add_line"])
    /\ UNCHANGED <<orders_file, order, pay_result, uuid_count, found>>
    /\ SessionUntouched

ApiPriceOrder ==
    /\ order' = Some(PricingCalculateOrderTotal(order[1], heap, TAX_RATE, SHIPPING_COST))
    /\ call' = Some([op |-> "calculate_totals"])
    /\ UNCHANGED <<orders_file, heap, pay_result, uuid_count, found>>
    /\ SessionUntouched

\* invoice = Invoice(order.order_id, ..., order.order_lines, ...);
\* order.invoice = invoice, once per order as in checkout
ApiCreateInvoice ==
    /\ order[1].invoice = None
    /\ LET o == order[1]
           invoice == Invoice(o.order_id, o.customer_id, o.order_lines,
                              o.subtotal, o.tax_amount, o.total_amount,
                              uuid_count + 1) IN
       order' = Some([o EXCEPT !.invoice = Some(invoice)])
    /\ uuid_count' = uuid_count + 1
    /\ call' = Some([op |-> "Invoice"])
    /\ UNCHANGED <<orders_file, heap, pay_result, found>>
    /\ SessionUntouched

NextInvoice ==
    \/ \E order_line \in OrderLineInputs : ApiAddLine(order_line)
    \/ ApiPriceOrder
    \/ ApiCreateInvoice

SpecInvoice == InitInvoice /\ [][NextInvoice]_vars

(* Repository: orders are created, changed, saved and read back *)

InitRepo ==
    /\ InitApi
    /\ uuid_count = 0
    /\ order = None
    /\ heap = <<>>

RepoNewOrder(customer_id) ==
    /\ uuid_count < MaxStored
    /\ order' = Some(Order(customer_id, uuid_count + 1, 1))
    /\ heap' = << <<>> >>
    /\ uuid_count' = uuid_count + 1
    /\ call' = Some([op |-> "Order"])
    /\ found' = None
    /\ UNCHANGED <<orders_file, pay_result>>
    /\ SessionUntouched

RepoSetStatus(status) ==
    /\ order # None
    /\ order' = Some(SetStatus(order[1], status))
    /\ call' = Some([op |-> "set_status"])
    /\ found' = None
    /\ UNCHANGED <<orders_file, heap, pay_result, uuid_count>>
    /\ SessionUntouched

RepoSave ==
    /\ order # None
    /\ orders_file' = OrderRepositorySave(orders_file, OrderToDict(order[1], heap))
    /\ call' = Some([op |-> "save",
                     existed |-> OrderIndexOf(LoadAll(orders_file), order[1].order_id) # 0])
    /\ found' = None
    /\ UNCHANGED <<order, heap, pay_result, uuid_count>>
    /\ SessionUntouched

\* order = repo.find_by_id(order_id)
RepoFindById(order_id) ==
    /\ order' = OrderRepositoryFindById(orders_file, order_id)
    /\ heap' = IF order' # None THEN FromDictHeap ELSE <<>>
    /\ call' = Some([op |-> "find_by_id", order_id |-> order_id])
    /\ found' = None
    /\ UNCHANGED <<orders_file, pay_result, uuid_count>>
    /\ SessionUntouched

RepoFindByCustomerId(customer_id) ==
    /\ found' = Some(OrderRepositoryFindByCustomerId(orders_file, customer_id))
    /\ call' = Some([op |-> "find_by_customer_id", customer_id |-> customer_id])
    /\ UNCHANGED <<orders_file, order, heap, pay_result, uuid_count>>
    /\ SessionUntouched

NextRepo ==
    \/ \E customer_id \in CustomerIds : RepoNewOrder(customer_id)
    \/ \E status \in StatusValues : RepoSetStatus(status)
    \/ RepoSave
    \/ \E n \in 1..(MaxStored + 1) : RepoFindById(Uuid(n))
    \/ \E customer_id \in CustomerIds \cup {"c9"} : RepoFindByCustomerId(customer_id)

SpecRepo == InitRepo /\ [][NextRepo]_vars

(* Store: the read operations over an orders file in any condition *)

\* the n-th order saved, by customer_id, as save writes it
StoredOrderInput(customer_id, n) ==
    OrderToDict(SetStatus(Order(customer_id, n, 1), "Paid"), << <<>> >>)

StoreInputs ==
    {JsonFile([n \in 1..k |-> StoredOrderInput(owner[n], n)]) :
        k \in 0..MaxStored, owner \in [1..MaxStored -> CustomerIds]}
    \cup {EmptyFile, MalformedFile, UnreadableFile, NotRecordsFile}

InitStore ==
    /\ current_user = None
    /\ current_cart = None
    /\ products_file = JsonFile(InitialProducts)
    /\ orders_file \in StoreInputs
    /\ order = None
    /\ heap = <<>>
    /\ pc = "menu"
    /\ pay_result = None
    /\ uuid_count = 0
    /\ call = None
    /\ found = None
    /\ hash_seed \in HashSeeds

StoreFindById(order_id) ==
    /\ found' = Some(TryFindById(orders_file, order_id))
    /\ call' = Some([op |-> "find_by_id", order_id |-> order_id])
    /\ UNCHANGED <<orders_file, order, heap, pay_result, uuid_count>>
    /\ SessionUntouched

StoreFindByCustomerId(customer_id) ==
    /\ found' = Some(TryFindByCustomerId(orders_file, customer_id))
    /\ call' = Some([op |-> "find_by_customer_id", customer_id |-> customer_id])
    /\ UNCHANGED <<orders_file, order, heap, pay_result, uuid_count>>
    /\ SessionUntouched

StoreGetAll ==
    /\ found' = Some(TryGetAll(orders_file))
    /\ call' = Some([op |-> "get_all"])
    /\ UNCHANGED <<orders_file, order, heap, pay_result, uuid_count>>
    /\ SessionUntouched

NextStore ==
    \/ \E n \in 1..(MaxStored + 1) : StoreFindById(Uuid(n))
    \/ \E customer_id \in CustomerIds : StoreFindByCustomerId(customer_id)
    \/ StoreGetAll

SpecStore == InitStore /\ [][NextStore]_vars

(* Cart: a ShoppingCart object and its four operations *)

InitCart ==
    /\ current_user = None
    /\ current_cart = Some(ShoppingCart("c1"))
    /\ products_file = JsonFile(InitialProducts)
    /\ orders_file = JsonFile(<<>>)
    /\ order = None
    /\ heap = <<>>
    /\ pc = "menu"
    /\ pay_result = None
    /\ uuid_count = 0
    /\ call = None
    /\ found = None
    /\ hash_seed \in HashSeeds

CartUntouched ==
    UNCHANGED <<current_user, products_file, orders_file, order, heap, pc,
                pay_result, uuid_count, found, hash_seed>>

ApiAddItem(product, quantity) ==
    /\ current_cart' = Some(CartAddItem(current_cart[1], product, quantity))
    /\ CartUnits(current_cart'[1].items) <= MaxCartUnits + 1
    /\ call' = Some([op |-> "add_item", product |-> product, quantity |-> quantity])
    /\ CartUntouched

ApiRemoveItem(product_id) ==
    /\ current_cart' = Some(CartRemoveItem(current_cart[1], product_id))
    /\ call' = Some([op |-> "remove_item", product_id |-> product_id])
    /\ CartUntouched

ApiUpdateItemQuantity(product_id, new_quantity) ==
    /\ current_cart' = Some(CartUpdateItemQuantity(current_cart[1], product_id, new_quantity))
    /\ CartUnits(current_cart'[1].items) <= MaxCartUnits + 1
    /\ call' = Some([op |-> "update_item_quantity", product_id |-> product_id,
                     new_quantity |-> new_quantity])
    /\ CartUntouched

ApiClear ==
    /\ current_cart' = Some(CartClear(current_cart[1]))
    /\ call' = Some([op |-> "clear"])
    /\ CartUntouched

NextCart ==
    \/ \E k \in 1..Len(InitialProducts), quantity \in 1..MaxCartUnits :
          ApiAddItem(InitialProducts[k], quantity)
    \/ \E product_id \in ProductIdInputs : ApiRemoveItem(product_id)
    \/ \E product_id \in ProductIdInputs, new_quantity \in 0..MaxCartUnits :
          ApiUpdateItemQuantity(product_id, new_quantity)
    \/ ApiClear

SpecCart == InitCart /\ [][NextCart]_vars

(* Lookups: ids are looked up in the stores and by add_to_cart *)

InitLookup ==
    /\ InitStore
    /\ orders_file.content = "json"

\* product = products_repo.find_by_id(product_id)
LookupProductFindById(product_id) ==
    /\ found' = Some(Returns(ProductRepositoryFindById(products_file, product_id)))
    /\ call' = Some([op |-> "product_find_by_id", product_id |-> product_id])
    /\ UNCHANGED <<orders_file, order, heap, pay_result, uuid_count>>
    /\ SessionUntouched

\* add_to_cart, the product id entered on record
LookupAddToCart(product_id, quantity) ==
    /\ AddToCartCart(product_id, quantity)
    /\ call' = Some([op |-> "add_to_cart", product_id |-> product_id])
    /\ found' = None
    /\ UNCHANGED <<current_user, products_file, orders_file, order, heap, pc,
                   pay_result, uuid_count, hash_seed>>

NextLookup ==
    \/ LoginUser(UsersFile[1].email, UsersFile[1].password)
    \/ \E n \in 1..(MaxStored + 1) : StoreFindById(Uuid(n))
    \/ \E product_id \in ProductIdInputs : LookupProductFindById(product_id)
    \/ \E product_id \in ProductIdInputs, quantity \in 1..MaxCartUnits :
          LookupAddToCart(product_id, quantity)

SpecLookup == InitLookup /\ [][NextLookup]_vars

-----------------------------------------------------------------------------
(* Pricing, payment, invoice, repository: claims C1, C3, C4, C8, C9, C10 *)

Called(op) == call # None /\ call[1].op = op

\* sum of unit_price x quantity over lines[1..k]
RECURSIVE LinesTotalUpTo(_, _)
LinesTotalUpTo(lines, k) ==
    IF k = 0 THEN 0
    ELSE LinesTotalUpTo(lines, k - 1) + lines[k].unit_price * lines[k].quantity

\* C1: after calculate_totals(tax_rate, shipping_cost) on an order with any
\* lines, none included: subtotal is the sum of unit_price x quantity over
\* the lines, tax_amount is subtotal x tax_rate (the rate is in percent),
\* shipping_cost is the fee passed in and total_amount is the sum of the
\* three.
C1_TotalsReconcile ==
    (Called("calculate_totals") /\ order # None) =>
        LET o == order[1]
            lines == heap[o.order_lines] IN
        /\ o.subtotal = LinesTotalUpTo(lines, Len(lines))
        /\ lines = <<>> => o.subtotal = 0
        /\ o.tax_amount * 100 = o.subtotal * call[1].tax_rate
        /\ o.shipping_cost = call[1].shipping_cost
        /\ o.total_amount = o.subtotal + o.tax_amount + o.shipping_cost

\* two units at 29.99 and one at 14.99, 10 % tax, 5.00 shipping:
\* 74.97 + 7.497 + 5.00 = 87.467
C1_ScenarioPriced ==
    /\ Called("calculate_totals")
    /\ Len(heap[order[1].order_lines]) = 2
    /\ call[1].tax_rate = 10
    /\ call[1].shipping_cost = 50000
    /\ order[1].subtotal = 749700
    /\ order[1].tax_amount = 74970
    /\ order[1].total_amount = 874670

StoredIds == {StoredOrders[i].order_id : i \in 1..Len(StoredOrders)}

\* C3: every order id in the store occurs in exactly one record; a save of
\* an order whose id is stored puts order.to_dict() in the place of that
\* record and changes no other record, a save of any other order appends
\* order.to_dict().
C3_SaveIsUpsert ==
    /\ [](\A i, j \in 1..Len(StoredOrders) :
             StoredOrders[i].order_id = StoredOrders[j].order_id => i = j)
    /\ [][(call' # None /\ call'[1].op = "save") =>
             LET before == LoadAll(orders_file)
                 after == LoadAll(orders_file')
                 saved == OrderToDict(order[1], heap) IN
             IF saved.order_id \in StoredIds
             THEN /\ Len(after) = Len(before)
                  /\ \A i \in 1..Len(before) :
                        after[i] = IF before[i].order_id = saved.order_id
                                   THEN saved ELSE before[i]
             ELSE after = Append(before, saved)
         ]_vars

\* the first of three stored orders was saved again, as Paid
C3_StoredOrderSavedAgain ==
    /\ Called("save")
    /\ call[1].existed
    /\ Len(StoredOrders) = 3
    /\ order[1].order_id = StoredOrders[1].order_id
    /\ StoredOrders[1].status = "Paid"
    /\ StoredOrders[2].status = "Pending"

\* C4: what find_by_customer_id(c) returns is the stored orders of customer
\* c and no other, one entry per stored record, in the order of the store.
C4_FindByCustomerIdExact ==
    Called("find_by_customer_id") =>
        LET c == call[1].customer_id
            result == found[1]
            matching == {i \in 1..Len(StoredOrders) : StoredOrders[i].customer_id = c} IN
        /\ Len(result) = Cardinality(matching)
        /\ \A k \in 1..Len(result) : result[k].customer_id = c
        /\ \E f \in [1..Len(result) -> 1..Len(StoredOrders)] :
              /\ \A k \in 1..Len(result) :
                    /\ f[k] \in matching
                    /\ result[k].order_id = StoredOrders[f[k]].order_id
                    /\ result[k].status = StoredOrders[f[k]].status
              /\ \A k, l \in 1..Len(result) : k < l => f[k] < f[l]

\* two orders of one customer are returned, a third customer's order between
\* them in the store is not
C4_TwoOfThreeReturned ==
    /\ Called("find_by_customer_id")
    /\ Len(StoredOrders) = 3
    /\ StoredOrders[2].customer_id # call[1].customer_id
    /\ Len(found[1]) = 2
    /\ found[1][1].order_id = StoredOrders[1].order_id
    /\ found[1][2].order_id = StoredOrders[3].order_id

InvoiceContent ==
    LET inv == order[1].invoice[1] IN
    [items |-> heap[inv.items], subtotal |-> inv.subtotal,
     tax_amount |-> inv.tax_amount, total_amount |-> inv.total_amount]

\* C8: once an order has its invoice, no add_line on the order and no
\* recomputation of its totals changes the invoice's items, subtotal,
\* tax_amount or total_amount.
C8_InvoiceIsACopy ==
    [][(order # None /\ order[1].invoice # None /\ order'[1].invoice # None)
          => InvoiceContent' = InvoiceContent]_vars

RegistryNames == {"credit_card", "digital_wallet", "bank_transfer"}

\* what a caller of process_order_payment gets back
Returned(result) == <<result.success, result.transaction_id>>

\* every (success, transaction_id) a gateway call can give for this order,
\* approved or declined
GatewayReturns(o) ==
    {Returned(ProcessOrderPayment(o, m, declines)) :
        m \in RegistryNames, declines \in BOOLEAN}

PrefixTag(payment_method) ==
    CASE payment_method = "credit_card" -> "CC-"
      [] payment_method = "digital_wallet" -> "DW-"
      [] payment_method = "bank_transfer" -> "BT-"

\* C10: process_order_payment with a registered method approves, whatever
\* the order and its amount, and the transaction reference is the method's
\* tag, the first 8 characters of the order id and the marker SUCCESS; the
\* gateway asked is the one registered under the method.
C10_RegisteredMethodApproves ==
    (Called("process_order_payment") /\ call[1].payment_method \in RegistryNames) =>
        LET result == pay_result[1]
            ref == result.transaction_id
            id == order[1].order_id IN
        /\ result.success = TRUE
        /\ Len(ref) = 10
        /\ ref[1] = PrefixTag(call[1].payment_method)
        /\ \A i \in 1..8 : ref[i + 1] = id[i]
        /\ ref[10] = "-SUCCESS"
        /\ result.gateway = Some(call[1].payment_method)

C10_BankTransferApproved ==
    /\ Called("process_order_payment")
    /\ call[1].payment_method = "bank_transfer"
    /\ pay_result[1].success
    /\ pay_result[1].transaction_id[1] = "BT-"
    /\ order[1].order_id = Uuid(2)

-----------------------------------------------------------------------------
(* Checkout as a sequence, sessions: claims C11, C12, C13, C19, C20 *)

Priced(o) ==
    /\ o.shipping_cost = SHIPPING_COST
    /\ o.total_amount = o.subtotal + o.tax_amount + o.shipping_cost

\* C11: within a checkout the lines are assembled from the cart first, the
\* totals are there before a payment result is, an invoice or a shipment is
\* attached only with an approved payment, the order is in the repository
\* only with an approved payment and with its invoice and shipment, the
\* save happens while the cart still holds its items, and the cart changes
\* only after the save, to empty.
C11_CheckoutStepsInOrder ==
    /\ [](InCheckout =>
            LET o == order[1]
                lines == heap[o.order_lines] IN
            /\ current_cart[1].items # <<>>
            /\ Len(lines) = Len(current_cart[1].items)
            /\ pay_result # None => Priced(o)
            /\ (o.invoice # None \/ o.shipment # None) => Approved
            /\ IsStored(o.order_id) =>
                  (Approved /\ o.invoice # None /\ o.shipment # None))
    /\ [][orders_file' # orders_file =>
             /\ InCheckout /\ Approved
             /\ order[1].invoice # None /\ order[1].shipment # None
             /\ current_cart' = current_cart]_vars
    /\ [][(InCheckout /\ current_cart' # current_cart) =>
             /\ IsStored(order[1].order_id)
             /\ current_cart'[1].items = <<>>]_vars

\* the order is saved and the cart still holds its items
C11_SavedBeforeCartCleared ==
    /\ InCheckout
    /\ IsStored(order[1].order_id)
    /\ Len(current_cart[1].items) = 2
    /\ order[1].status = "Paid"

\* the order in hand gets an invoice (a shipment) in this step
InvoiceAttached ==
    /\ order' # None /\ order'[1].invoice # None
    /\ (order = None \/ order[1].invoice = None)

ShipmentAttached ==
    /\ order' # None /\ order'[1].shipment # None
    /\ (order = None \/ order[1].shipment = None)

\* C12: over any sequence of checkouts, an invoice (a shipment) is attached
\* to an order only when the order has none, its payment is approved and it
\* is Paid, and it carries that order's id; once attached to the order in
\* hand or stored, it is never replaced or removed; stored orders have
\* distinct ids, and no two of them carry the same invoice or shipment.
C12_OneInvoiceOneShipmentPerOrder ==
    /\ [][InvoiceAttached =>
             /\ order # None /\ order'[1].order_id = order[1].order_id
             /\ Approved /\ order[1].status = "Paid"
             /\ order'[1].invoice[1].order_id = order[1].order_id]_vars
    /\ [][ShipmentAttached =>
             /\ order # None /\ order'[1].order_id = order[1].order_id
             /\ Approved /\ order[1].status = "Paid"
             /\ order'[1].shipment[1].order_id = order[1].order_id]_vars
    /\ [][(order # None /\ order' # None) =>
             /\ order[1].invoice # None => order'[1].invoice = order[1].invoice
             /\ order[1].shipment # None => order'[1].shipment = order[1].shipment]_vars
    /\ [][\A i \in 1..Len(StoredOrders) :
             /\ i <= Len(LoadAll(orders_file'))
             /\ LoadAll(orders_file')[i].order_id = StoredOrders[i].order_id
             /\ LoadAll(orders_file')[i].invoice = StoredOrders[i].invoice
             /\ LoadAll(orders_file')[i].shipment = StoredOrders[i].shipment]_vars
    /\ [](\A i, j \in 1..Len(StoredOrders) :
             /\ StoredOrders[i].invoice # None
             /\ StoredOrders[i].shipment # None
             /\ StoredOrders[i].invoice[1].order_id = StoredOrders[i].order_id
             /\ StoredOrders[i].shipment[1].order_id = StoredOrders[i].order_id
             /\ i # j =>
                   /\ StoredOrders[i].order_id # StoredOrders[j].order_id
                   /\ StoredOrders[i].invoice[1].invoice_id
                         # StoredOrders[j].invoice[1].invoice_id
                   /\ StoredOrders[i].shipment[1].shipment_id
                         # StoredOrders[j].shipment[1].shipment_id)

\* a second checkout is at its save, the first order is stored
C12_SecondOrderInvoiced ==
    /\ InCheckout
    /\ Len(StoredOrders) = 1
    /\ order[1].invoice # None /\ order[1].shipment # None
    /\ ~IsStored(order[1].order_id)
    /\ order[1].invoice[1].order_id # StoredOrders[1].order_id

Totals(o) == <<o.subtotal, o.tax_amount, o.shipping_cost, o.total_amount>>

\* C13: an order comes to the pricing step once, new and unpriced, and the
\* step prices it and goes on to payment; its totals change at no other
\* step; the gateway is asked only at the payment step, for an order that is
\* priced, and the amount it is asked for is the order's total_amount.
C13_PricedOnceBeforePayment ==
    /\ [][pc' = "pricing" =>
             /\ pc = "menu" /\ order = None
             /\ Totals(order'[1]) = <<0, 0, 0, 0>>
             /\ ~IsStored(order'[1].order_id)]_vars
    /\ [][pc = "pricing" =>
             /\ pc' = "payment"
             /\ order'[1].order_id = order[1].order_id
             /\ Priced(order'[1])]_vars
    /\ [][(order # None /\ order' # None /\ pc # "pricing") =>
             Totals(order'[1]) = Totals(order[1])]_vars
    /\ [][(pay_result' # None /\ pay_result' # pay_result) =>
             /\ pc = "payment" /\ pay_result = None
             /\ Priced(order[1]) /\ order' = order
             /\ pay_result'[1].amount = Some(order[1].total_amount)]_vars
    /\ []((pc \in {"menu", "pricing"}) => pay_result = None)

\* a mouse and a phone stand: 44.98 + 4.498 + 5.00 asked of a gateway
C13_GatewayAskedForTotal ==
    /\ InCheckout
    /\ pay_result # None
    /\ pay_result[1].amount = Some(544780)
    /\ order[1].subtotal = 449800

-----------------------------------------------------------------------------
(* Carrier tracking: claims C14, C15 *)

\* C14: a get_tracking_info call with the tracking number of the
\* get_tracking_info call before it returns what that call returned,
\* whatever happened between the two, a new run of the program included.
C14_TrackingIsPureInTrackingCode ==
    [][(/\ call # None /\ call[1].op = "get_tracking_info"
        /\ call' # None /\ call'[1].op = "get_tracking_info"
        /\ call'[1].tracking_number = call[1].tracking_number)
          => found' = found]_vars

\* C15: a tracking query (track_shipment, update_shipment_status on a
\* loaded order) leaves the orders file as it is; every stored shipment
\* keeps the status it was saved with, Pending, and every stored order its
\* status Paid; the status of an order loaded for update_shipment_status is
\* its stored status, whatever status the carrier gave its shipment.
C15_TrackingChangesNothingStored ==
    /\ [][(call' # None /\ call' # call
             /\ call'[1].op \in {"get_tracking_info", "update_shipment_status"})
           => orders_file' = orders_file]_vars
    /\ [](\A i \in 1..Len(StoredOrders) :
             /\ StoredOrders[i].status = "Paid"
             /\ StoredOrders[i].shipment[1].status = "Pending")
    /\ [](Called("update_shipment_status") =>
             /\ found[1].order_status = "Paid"
             /\ found[1].shipment_status # "Pending")
    /\ [](Called("get_tracking_info") =>
             \E k \in 1..Len(MockStatuses) : found[1][1] = MockStatuses[k])

\* both stored shipments were given a carrier status, both stay Pending
C15_TrackedTwiceStillPending ==
    /\ Called("get_tracking_info")
    /\ Len(StoredOrders) = 2
    /\ call[1].tracking_number = StoredOrders[2].shipment[1].tracking_number
    /\ found[1][1] # StoredOrders[2].shipment[1].status
    /\ StoredOrders[2].shipment[1].status = "Pending"

-----------------------------------------------------------------------------
(* Lookups and the cart: claims C16, C17, C18 *)

\* C16: over an orders file that is unreadable, malformed or empty,
\* find_by_id returns None and find_by_customer_id and get_all return [],
\* and none of them raises.
C16_BadStoreReadsAsEmpty ==
    (call # None /\ orders_file.content # "json") =>
        found = Some(Returns(IF call[1].op = "find_by_id" THEN None ELSE <<>>))

\* C17: no two items of the cart hold the same product id; add_item of a
\* product that is in the cart adds the quantity to that item and changes
\* nothing else, position included; add_item of a product that is not in
\* the cart appends one item with the product and the quantity.
C17_CartUniqueByProduct ==
    /\ [](\A i, j \in 1..Len(current_cart[1].items) :
             current_cart[1].items[i].product.product_id
                = current_cart[1].items[j].product.product_id => i = j)
    /\ [][(call' # None /\ call'[1].op = "add_item") =>
             LET before == current_cart[1].items
                 after == current_cart'[1].items
                 product == call'[1].product
                 held == {i \in 1..Len(before) :
                             before[i].product.product_id = product.product_id} IN
             IF held # {}
             THEN /\ Len(after) = Len(before)
                  /\ \A i \in 1..Len(before) :
                        /\ after[i].product = before[i].product
                        /\ after[i].quantity =
                              IF i \in held
                              THEN before[i].quantity + call'[1].quantity
                              ELSE before[i].quantity
             ELSE after = Append(before, [product |-> product,
                                          quantity |-> call'[1].quantity])
         ]_vars

\* the first of two items was added to again and is still the first
C17_AddedToFirstOfTwo ==
    /\ Called("add_item")
    /\ Len(current_cart[1].items) = 2
    /\ current_cart[1].items[1].product = call[1].product
    /\ current_cart[1].items[1].quantity = 2
    /\ current_cart[1].items[2].quantity = 1

CatalogueIds ==
    {LoadAll(products_file)[i].product_id : i \in 1..Len(LoadAll(products_file))}

\* C18: find_by_id of an order id that is not stored, and of a product id
\* that is not in the catalogue, returns None and raises nothing; add_to_cart
\* with a product id that is not in the catalogue leaves the cart as it is;
\* none of the three changes a store (a step that changes current_user is a
\* login, not one of the three).
C18_UnknownIdIsAbsent ==
    /\ []((Called("find_by_id") /\ call[1].order_id \notin StoredIds)
             => found = Some(Returns(None)))
    /\ []((Called("product_find_by_id") /\ call[1].product_id \notin CatalogueIds)
             => found = Some(Returns(None)))
    /\ [][(call' # None /\ call'[1].op \in {"find_by_id", "product_find_by_id"}
              /\ current_user' = current_user) =>
             /\ orders_file' = orders_file /\ products_file' = products_file
             /\ current_cart' = current_cart]_vars
    /\ [][(call' # None /\ call'[1].op = "add_to_cart"
              /\ call'[1].product_id \notin CatalogueIds
              /\ current_user' = current_user) =>
             /\ current_cart' = current_cart
             /\ orders_file' = orders_file /\ products_file' = products_file]_vars

\* an unknown product id was entered with one item in the cart
C18_UnknownProductEntered ==
    /\ Called("add_to_cart")
    /\ call[1].product_id = "p9"
    /\ Len(current_cart[1].items) = 1
    /\ Len(StoredOrders) = 1

-----------------------------------------------------------------------------
(* The end of a checkout, the session's cart: claims C19, C20 *)

StoredComplete(order_id) ==
    \E i \in 1..Len(StoredOrders) :
        /\ StoredOrders[i].order_id = order_id
        /\ StoredOrders[i].status = "Paid"
        /\ StoredOrders[i].invoice # None
        /\ StoredOrders[i].shipment # None

\* C19: a checkout whose payment step has been answered with an accepted
\* choice ends: it leads to the menu with the order stored as Paid with
\* its invoice and shipment and with the session's cart empty; from the
\* payment prompt to the end the session's user does not change and the
\* cart changes only by being emptied at the end.
C19_CheckoutCompletes ==
    /\ \A n \in 1..(3 * MaxOrders) :
          (pc = "paid" /\ order[1].order_id = Uuid(n))
             ~> (/\ pc = "menu" /\ order = None
                 /\ StoredComplete(Uuid(n))
                 /\ current_cart # None /\ current_cart[1].items = <<>>)
    /\ [][pc \notin {"menu", "pricing"} =>
             /\ current_user' = current_user
             /\ products_file' = products_file
             /\ current_cart' # current_cart =>
                   (pc' = "menu" /\ current_cart'[1].items = <<>>)]_vars

\* back at the menu after a completed checkout
C19_CheckoutEnded ==
    /\ pc = "menu"
    /\ LoggedIn
    /\ current_cart[1].items = <<>>
    /\ Len(StoredOrders) = 1
    /\ StoredComplete(StoredOrders[1].order_id)
    /\ Len(StoredOrders[1].order_lines) = 2

\* C20: a checkout that ends with its payment approved leaves the session
\* a cart without items, one that ends without leaves the cart as it was;
\* a logout leaves no user and no cart, and there is a cart exactly when
\* there is a user; a login gives the session an empty cart of the
\* customer who logged in.
C20_CartClearedOrDestroyed ==
    /\ [][(InCheckout /\ order' = None) =>
             IF Approved
             THEN current_cart' = Some([current_cart[1] EXCEPT !.items = <<>>])
             ELSE current_cart' = current_cart /\ current_cart[1].items # <<>>]_vars
    /\ [][(current_user # None /\ current_user' = None) => current_cart' = None]_vars
    /\ []((current_user = None) <=> (current_cart = None))
    /\ [][(current_user = None /\ current_user' # None) =>
             current_cart' = Some([items |-> <<>>,
                                   customer_id |-> current_user'[1].customer_id])]_vars

\* logged out after a completed checkout
C20_LoggedOutAfterCheckout ==
    /\ current_user = None
    /\ current_cart = None
    /\ Len(StoredOrders) = 1
    /\ pc = "menu"

-----------------------------------------------------------------------------
(* Checkout asked for at the menu: claim C21 *)

CheckoutAtMenuWithoutEmptyCheck(max_orders) ==
    /\ pc = "menu"
    /\ call' = Some([op |-> "checkout"])
    /\ found' = None
    /\ IF ~(current_user # None /\ current_cart # None)
       THEN UNCHANGED <<order, heap, uuid_count, pc>>
       ELSE /\ uuid_count + 3 <= 3 * max_orders
            /\ LET o == Order(current_user[1].customer_id, uuid_count + 1, 1) IN
               /\ order' = Some(o)
               /\ heap' = AssembleLines(<< <<>> >>, o, current_cart[1].items)
            /\ uuid_count' = uuid_count + 1
            /\ pc' = "pricing"
    /\ UNCHANGED <<current_user, current_cart, products_file, orders_file,
                   pay_result, hash_seed>>

\* checkout chosen at the menu, the request on record: the two early
\* returns, otherwise steps 1 and 2
CheckoutAtMenu(max_orders) ==
    /\ pc = "menu"
    /\ call' = Some([op |-> "checkout"])
    /\ found' = None
    /\ IF ~(current_user # None /\ current_cart # None)
       THEN UNCHANGED <<order, heap, uuid_count, pc>>
       ELSE IF CartIsEmpty(current_cart[1])
       THEN UNCHANGED <<order, heap, uuid_count, pc>>
       ELSE /\ uuid_count + 3 <= 3 * max_orders
            /\ LET o == Order(current_user[1].customer_id, uuid_count + 1, 1) IN
               /\ order' = Some(o)
               /\ heap' = AssembleLines(<< <<>> >>, o, current_cart[1].items)
            /\ uuid_count' = uuid_count + 1
            /\ pc' = "pricing"
    /\ UNCHANGED <<current_user, current_cart, products_file, orders_file,
                   pay_result, hash_seed>>

\* one customer who may ask for checkout at any time at the menu
NextRequests ==
    \/ LoginUser(UsersFile[1].email, UsersFile[1].password)
    \/ LogoutUser
    \/ \E product_id \in ProductIdInputs : LookupAddToCart(product_id, 1)
    \/ ManageCartItems(1, 2, 1)
    \/ CheckoutAtMenu(MaxCheckouts)
    \/ CheckoutCalculateTotals
    \/ \E choice \in ChoiceInputs : CheckoutPayment(choice)
    \/ \E choice \in ChoiceInputs : CheckoutPaymentDeclined(choice)
    \/ CheckoutSetStatus
    \/ CheckoutCreateInvoice
    \/ CheckoutCreateShipment
    \/ CheckoutSaveOrder
    \/ CheckoutClearCart

SpecRequests == Init /\ [][NextRequests]_vars

\* There is nothing to check out when nobody is logged in or the cart is empty
NothingToCheckOut ==
    \/ current_user = None
    \/ current_cart = None
    \/ current_cart[1].items = <<>>

\* C21: a checkout asked for with no logged-in user or with an empty
\* cart is refused: the step makes no order, asks no gateway, and leaves
\* the order repository, the cart and the count of identifiers drawn as
\* they were, and the session stays at the menu.
C21_EmptyCheckoutRefused ==
    [][(/\ pc = "menu"
        /\ NothingToCheckOut
        /\ call' = Some([op |-> "checkout"])
        /\ current_user' = current_user)
       => /\ order' = None
          /\ order' = order
          /\ pay_result' = pay_result
          /\ orders_file' = orders_file
          /\ current_cart' = current_cart
          /\ uuid_count' = uuid_count
          /\ pc' = "menu"]_vars

\* a logged-in customer with an empty cart asked for checkout, and no order
\* was ever created
C21_RefusedWithEmptyCart ==
    /\ Called("checkout")
    /\ LoggedIn
    /\ current_cart[1].items = <<>>
    /\ uuid_count = 0
    /\ order = None
    /\ StoredOrders = <<>>

-----------------------------------------------------------------------------
(* Shipments and the carrier: claims C22, C23 *)

InitShipment ==
    /\ InitApi
    /\ order = None
    /\ heap = << <<>> >>
    /\ uuid_count = 0

\* shipment = Shipment(order_id), for any order id
ApiCreateShipment(order_id) ==
    /\ uuid_count < 3 * MaxCheckouts
    /\ found' = Some(Shipment(order_id, uuid_count + 1))
    /\ uuid_count' = uuid_count + 1
    /\ call' = Some([op |-> "Shipment", order_id |-> order_id])
    /\ UNCHANGED <<orders_file, order, heap, pay_result>>
    /\ SessionUntouched

\* tracking codes a carrier may be asked about: those of shipments, the
\* bare prefix, the empty string
TrackingInputs ==
    {Shipment(Uuid(1), n).tracking_number : n \in 1..(3 * MaxCheckouts)}
        \cup {<<"TRACK-">>, <<>>}

\* carrier_adapter.get_tracking_info(tracking_number)
ApiGetTrackingInfo(tracking_number) ==
    /\ found' = Some(GetTrackingInfo(hash_seed, tracking_number))
    /\ call' = Some([op |-> "get_tracking_info", tracking_number |-> tracking_number])
    /\ UNCHANGED <<orders_file, order, heap, pay_result, uuid_count>>
    /\ SessionUntouched

NextShipment ==
    \/ \E n \in 1..MaxCheckouts : ApiCreateShipment(Uuid(n))
    \/ \E tracking_number \in TrackingInputs : ApiGetTrackingInfo(tracking_number)

SpecShipment == InitShipment /\ [][NextShipment]_vars

LowerCaseLetters == {"a", "b", "c", "d", "e", "f"}

\* C22: a Shipment just constructed has status Pending, the order id it
\* was constructed for, and a tracking number made of the piece TRACK-
\* followed by the first 8 characters of its own shipment id, each in
\* upper case (so none of them a lower-case letter).
C22_NewShipmentPendingWithTrackingCode ==
    Called("Shipment") =>
        LET shipment == found[1] IN
        /\ shipment.status = "Pending"
        /\ shipment.order_id = call[1].order_id
        /\ Len(shipment.tracking_number) = 9
        /\ shipment.tracking_number[1] = "TRACK-"
        /\ \A i \in 1..8 :
              /\ shipment.tracking_number[i + 1] = UpperChar(shipment.shipment_id[i])
              /\ shipment.tracking_number[i + 1] \notin LowerCaseLetters

\* a shipment was constructed whose id starts with characters that
\* upper-casing changes
C22_ShipmentIdWithLetters ==
    /\ Called("Shipment")
    /\ \E i \in 1..8 : found[1].shipment_id[i] \in LowerCaseLetters

CarrierValues ==
    {"Order Confirmed", "Processing", "Shipped", "In Transit",
     "Out for Delivery", "Delivered"}

\* C23: whatever tracking code the carrier adapter is asked about, it
\* answers with a pair: a status that is one of the six carrier values
\* (never Pending), and the estimated delivery 2025-11-15.
C23_CarrierStatusIsOneOfSix ==
    Called("get_tracking_info") =>
        /\ Len(found[1]) = 2
        /\ found[1][1] \in CarrierValues
        /\ found[1][1] # "Pending"
        /\ found[1][2] = "2025-11-15"

\* the carrier was asked about a tracking code whose hash is negative
C23_NegativeHashLookedUp ==
    /\ Called("get_tracking_info")
    /\ StrHash(hash_seed, call[1].tracking_number) < 0

-----------------------------------------------------------------------------
(* The catalogue during checkouts: claim C24 *)

\* quantity_available of each product as the catalogue file has it
StockOnFile == [i \in 1..Len(LoadAll(products_file)) |->
                    <<LoadAll(products_file)[i].product_id,
                      LoadAll(products_file)[i].quantity_available>>]

\* C24: checkout never reduces stock: after any number of checkouts,
\* approved or declined, the catalogue file is the one the session started
\* with, and every product's quantity_available on file is its initial value.
C24_CheckoutLeavesStock ==
    /\ products_file = JsonFile(InitialProducts)
    /\ StockOnFile = [i \in 1..Len(InitialProducts) |->
                        <<InitialProducts[i].product_id,
                          InitialProducts[i].quantity_available>>]

\* two orders of two units each are stored for a product that has two in stock
C24_StockOrderedTwice ==
    /\ Len(StoredOrders) = 2
    /\ \A i \in 1..2 :
          /\ Len(StoredOrders[i].order_lines) = 1
          /\ StoredOrders[i].order_lines[1].product_id = InitialProducts[1].product_id
          /\ StoredOrders[i].order_lines[1].quantity = 2
    /\ StockOnFile[1] = <<InitialProducts[1].product_id, 2>>

-----------------------------------------------------------------------------
(* Orders read back for display: claim C25 *)

\* view_order_details: the customer's orders are listed with the numbers
\* 1..len(orders), the prompt repeats until validate_menu_choice accepts
\* the input, and orders[choice - 1] is displayed
ViewOrderDetails(choice) ==
    /\ pc = "menu"
    /\ current_user # None
    /\ LET orders == OrderRepositoryFindByCustomerId(orders_file, current_user[1].customer_id) IN
       /\ orders # <<>>
       /\ ValidateMenuChoice(choice, Len(orders))
       /\ LET selected_order == PyIndex(orders, choice - 1) IN
          /\ call' = Some([op |-> "view_order_details",
                           choice |-> choice,
                           listed |-> [i \in 1..Len(orders) |-> orders[i].order_id]])
          /\ found' = Some(selected_order)
    /\ UNCHANGED <<current_user, current_cart, products_file, orders_file, order,
                   heap, pc, pay_result, uuid_count, hash_seed>>

\* one customer who checks out and looks at the orders placed
NextHistory ==
    \/ NextCheckouts
    \/ \E choice \in (0 - 1)..(MaxCheckouts + 1) : ViewOrderDetails(choice)

SpecHistory == Init /\ [][NextHistory]_vars

\* C25: an order read back from the repository for display is the order
\* checkout saved: find_by_customer_id, find_by_id and get_all give the
\* same order, with the stored record's order id, customer id, status,
\* totals, invoice and shipment, and with the stored order lines (product,
\* quantity, unit price), so that its subtotal is the sum of its line totals.
C25_OrderRoundTrip ==
    Called("view_order_details") =>
        LET o == found[1]
            i == OrderIndexOf(StoredOrders, o.order_id)
            record == StoredOrders[i]
            all == OrderRepositoryGetAll(orders_file) IN
        /\ i # 0
        /\ o = OrderView(OrderRepositoryFindById(orders_file, o.order_id)[1], FromDictHeap)
        /\ o = all[i]
        /\ o.customer_id = record.customer_id
        /\ o.status = record.status
        /\ Totals(o) = Totals(record)
        /\ (o.invoice = None) = (record.invoice = None)
        /\ o.invoice # None =>
              /\ o.invoice[1].invoice_id = record.invoice[1].invoice_id
              /\ o.invoice[1].total_amount = record.invoice[1].total_amount
        /\ o.shipment = record.shipment
        /\ Len(o.order_lines) = Len(record.order_lines)
        /\ \A k \in 1..Len(o.order_lines) :
              /\ o.order_lines[k].product.product_id = record.order_lines[k].product_id
              /\ o.order_lines[k].quantity = record.order_lines[k].quantity
              /\ o.order_lines[k].unit_price = record.order_lines[k].unit_price
        /\ o.subtotal = SumLineTotals(o.order_lines)

-----------------------------------------------------------------------------
(* What the orders file holds: claim C26 *)

\* C26: starting from an empty orders file, every record in it has
\* status Paid (never Pending), an invoice and a shipment; the shipment's
\* and the invoice's order_id are the record's, the invoice's customer_id is
\* the record's, and the invoice's subtotal, tax_amount and total_amount are
\* the record's.
C26_StoredOrdersArePaidAndBilled ==
    \A i \in 1..Len(StoredOrders) :
        LET record == StoredOrders[i] IN
        /\ record.status = "Paid"
        /\ record.status # "Pending"
        /\ record.invoice # None
        /\ record.shipment # None
        /\ record.shipment[1].order_id = record.order_id
        /\ record.invoice[1].order_id = record.order_id
        /\ record.invoice[1].customer_id = record.customer_id
        /\ record.invoice[1].subtotal = record.subtotal
        /\ record.invoice[1].tax_amount = record.tax_amount
        /\ record.invoice[1].total_amount = record.total_amount

\* the second customer's order is on file, its total above its subtotal
C26_OrderOnFile ==
    /\ Len(StoredOrders) = 1
    /\ StoredOrders[1].customer_id = UsersFile[2].customer_id
    /\ StoredOrders[1].total_amount > StoredOrders[1].subtotal
    /\ StoredOrders[1].subtotal > 0

-----------------------------------------------------------------------------
(* Whose cart, whose orders: claim C27 *)

\* the cart exists exactly when a user is logged in, and is that user's
CartIsTheUsers ==
    /\ (current_cart # None) = (current_user # None)
    /\ current_cart # None => current_cart[1].customer_id = current_user[1].customer_id

\* the orders file gains a record only while a user is logged in, and the
\* record carries that user's customer id; no record on file changes hands
SavedForTheUser ==
    orders_file' # orders_file =>
        /\ current_user # None
        /\ current_user' = current_user
        /\ Len(LoadAll(orders_file')) = Len(StoredOrders) + 1
        /\ LoadAll(orders_file')[Len(StoredOrders) + 1].customer_id
              = current_user[1].customer_id
        /\ \A i \in 1..Len(StoredOrders) :
              LoadAll(orders_file')[i].customer_id = StoredOrders[i].customer_id

\* C27: in every state the cart exists iff a user is logged in, and then
\* carries that user's customer id; the order in hand during a checkout
\* and every order checkout saves carry the customer id of the user logged
\* in at that checkout; find_by_customer_id for the logged-in user returns
\* only orders with that user's customer id, hence none placed in another
\* customer's session.
C27_SessionAndOrdersBelongToUser ==
    /\ [](/\ CartIsTheUsers
          /\ InCheckout =>
                /\ current_user # None
                /\ order[1].customer_id = current_user[1].customer_id
          /\ current_user # None =>
                LET orders == OrderRepositoryFindByCustomerId(
                                  orders_file, current_user[1].customer_id) IN
                \A i \in 1..Len(orders) :
                    orders[i].customer_id = current_user[1].customer_id)
    /\ [][SavedForTheUser]_vars

\* the second customer is logged in while the only order on file was
\* placed by the first: the second customer's history is empty
C27_OtherCustomersOrderOnFile ==
    /\ LoggedIn
    /\ current_user[1].customer_id = UsersFile[2].customer_id
    /\ Len(StoredOrders) = 1
    /\ StoredOrders[1].customer_id = UsersFile[1].customer_id
    /\ OrderRepositoryFindByCustomerId(orders_file, current_user[1].customer_id) = <<>>

-----------------------------------------------------------------------------
(* Picking from a numbered list: claim C28 *)

\* C28: when an order is picked from the numbered list of
\* view_order_details, the number accepted is one of 1..n for the n orders
\* listed, and the order displayed is the one listed under that number.
C28_NumberPicksListedEntry ==
    Called("view_order_details") =>
        /\ call[1].choice \in 1..Len(call[1].listed)
        /\ found[1].order_id = call[1].listed[call[1].choice]

-----------------------------------------------------------------------------
(* Cart quantities and stock: claim C29 *)

\* quantity_available of a product as the catalogue has it
CatalogueStock(product_id) ==
    ProductRepositoryFindById(products_file, product_id)[1].quantity_available

\* C29: in every session state each cart item's quantity is at least 1
\* and at most the quantity_available of its product in the catalogue, and
\* so is the quantity of every line of the order assembled from the cart.
C29_CartWithinStock ==
    /\ current_cart # None =>
          \A i \in 1..Len(current_cart[1].items) :
              LET item == current_cart[1].items[i] IN
              /\ item.quantity >= 1
              /\ item.quantity <= CatalogueStock(item.product.product_id)
    /\ InCheckout =>
          \A i \in 1..Len(heap[order[1].order_lines]) :
              LET line == heap[order[1].order_lines][i] IN
              line.quantity <= CatalogueStock(line.product.product_id)

-----------------------------------------------------------------------------
(* Saving over any orders file: claim C30 *)

\* orders a caller may save: a new or a stored id, Pending or Paid
SaveInputs ==
    {OrderToDict(SetStatus(Order(UsersFile[1].customer_id, n, 1), status), << <<>> >>) :
        n \in 1..(MaxStored + 1), status \in StatusValues}

\* OrderRepository.save over any state of the file: read_text may raise,
\* o.get raises on an array element that is not an object, an empty or
\* malformed file is taken for [] and written over
TrySave(file, order_dict) ==
    IF LoadAllRaises(file) THEN <<file, Raises("OSError")>>
    ELSE IF file.content = "not_records" THEN <<file, Raises("AttributeError")>>
    ELSE <<OrderRepositorySave(file, order_dict), Returns(None)>>

StoreSave(order_dict) ==
    /\ orders_file' = TrySave(orders_file, order_dict)[1]
    /\ found' = Some(TrySave(orders_file, order_dict)[2])
    /\ call' = Some([op |-> "save", order_dict |-> order_dict])
    /\ UNCHANGED <<order, heap, pay_result, uuid_count>>
    /\ SessionUntouched

NextSave ==
    \/ \E order_dict \in SaveInputs : StoreSave(order_dict)
    \/ StoreGetAll

SpecSave == InitStore /\ [][NextSave]_vars

\* the records of a store other than the one with the given order id
OtherRecords(records, order_id) ==
    SelectSeq(records, LAMBDA r : r.order_id # order_id)

\* C30: a save over a store that read as a JSON array of records leaves
\* the records with other order ids as they were, in the same relative
\* order; the saved record stands at the position its id had, or at the
\* end when the id was new, and the store holds no other new record.
C30_SavePreservesOtherRecords ==
    [][(/\ call' # None
        /\ call'[1].op = "save"
        /\ orders_file.content = "json")
       => LET before == orders_file.data
              after == LoadAll(orders_file')
              saved == call'[1].order_dict
              i == OrderIndexOf(before, saved.order_id) IN
          /\ orders_file'.content = "json"
          /\ OtherRecords(after, saved.order_id) = OtherRecords(before, saved.order_id)
          /\ Len(after) = Len(before) + (IF i = 0 THEN 1 ELSE 0)
          /\ after[IF i = 0 THEN Len(after) ELSE i] = saved
      ]_vars

\* the second of three stored orders was saved again, as Pending
C30_MiddleRecordSavedAgain ==
    /\ Called("save")
    /\ Len(StoredOrders) = 3
    /\ \A i \in 1..3 : StoredOrders[i].order_id = Uuid(i)
    /\ StoredOrders[2] = call[1].order_dict
    /\ StoredOrders[2].status = "Pending"
    /\ StoredOrders[3].customer_id = UsersFile[2].customer_id

====
